---- MODULE Spec2Model ----
(***************************************************************************)
(* Arna agent core (src/src/core/agent_core.py): the Task tree and its     *)
(* status machine, TaskPlanner, MemoryManager, ExecutionEngine and the     *)
(* AgentManager that drives them; and the ContextManager of the text       *)
(* service (src/src/services/llm_service.py).                              *)
(*                                                                         *)
(* Objects are modelled by identity: a Task is an index into `tasks`, its  *)
(* metadata dict is a reference into `metas`, a MemoryManager is an        *)
(* instance name indexing `managers`.  Aliasing of dicts is therefore      *)
(* visible: two holders of the same reference see each other's writes.     *)
(***************************************************************************)
EXTENDS Integers, Sequences, FiniteSets, TLC

\* ------------------------------------------------------------------ bounds
MaxTasks == 3      \* Task objects ever constructed
MaxRoots == 1      \* of them, roots made by create_task
MaxSteps == 1      \* length of the step list the text service returns
MaxHistory == 2    \* history entries written before no new execute_task call starts
MaxAppends == 1    \* elements a caller appends to a list object

\* ------------------------------------------------------- program constants
None == "None"     \* Python's None where the other values are strings
NoParent == 0      \* parent_id = None
NoTime == -1       \* completed_at = None

\* The members of the enum TaskStatus, by name
PENDING == "PENDING"
PLANNING == "PLANNING"
IN_PROGRESS == "IN_PROGRESS"
COMPLETED == "COMPLETED"
FAILED == "FAILED"
CANCELLED == "CANCELLED"
TaskStatus == {PENDING, PLANNING, IN_PROGRESS, COMPLETED, FAILED, CANCELLED}

\* member.value
Value(status) ==
    CASE status = PENDING -> "pending"
      [] status = PLANNING -> "planning"
      [] status = IN_PROGRESS -> "in_progress"
      [] status = COMPLETED -> "completed"
      [] status = FAILED -> "failed"
      [] status = CANCELLED -> "cancelled"

\* TaskStatus(value): the member that has the value
TaskStatusOf(value) == CHOOSE status \in TaskStatus : Value(status) = value

\* MemoryManager instances of the scenario; the engine owns "first".
Instances == {"first", "second"}
\* Names a step may give as its tool; only "search" is ever registered.
Registrable == {"search"}
StepTools == {"search", "missing"}
\* What a registered tool returns.
ToolResults == {"r1"}
\* Messages of the exceptions the collaborators raise (str(e)).
ToolError == "tool_error"
ServiceError == "service_error"
BasicError == "basic_error"
MalformedReply == "malformed_reply"
\* Keys a caller writes into task.metadata.
NoteValues == {"n1"}
\* Keys, values and defaults the callers of MemoryManager use.
Keys == {"k", "j"}
Values == {"v", "w"}
Defaults == {None, "d"}
\* References to list objects a caller may store as values.
ObjRefs == {"o1"}
\* A name or a description is the sequence of the words it is made of, so
\* that `word in name` is membership.  The words stand for the literals of
\* the source: development 開発, implementation 実装, test テスト, design 設計,
\* plan 計画, execute 実行, verify 検証.
Names == {<<"job">>}
Descriptions == {<<"text">>}
\* AgentManager instances of the scenario
Agents == {"one", "two"}

VARIABLES
    tasks,          \* Seq of Task objects; a task's id is its index
    metas,          \* Seq of metadata dicts; Task i is constructed with dict i
    clock,          \* time.time(), as Task() and update_status read it; only Tick
                    \* advances it
    managers,       \* [Instances -> MemoryManager fields]
    tool_registry,  \* ExecutionEngine.tool_registry (names; callables are the environment)
    llm_service,    \* whether ExecutionEngine.llm_service is set
    stack,          \* call stack of execute_task, innermost frame last
    log,            \* logger.info("タスク実行開始") records of the running top-level call
    recalled,       \* the recall call made in the last step: instance, key, default, value returned
    snapshot,       \* the dict get_memory_snapshot returned to the caller, once it did
    objs,           \* the mutable values (lists) that memory values may refer to
    returned,       \* the execute_task call that ended in the last step: its task, how it
                    \* ended, the value returned and the error logger.error recorded in it
    planner_llm,    \* whether TaskPlanner.llm_service is set
    planning,       \* the plan_task call: where it stands, its arguments, how it ended
    fetched,        \* the get_task_history call made in the last step and the list it returned
    built,          \* the from_dict call made in the last step: the task serialized, the task built
    agents,         \* [Agents -> AgentManager fields]
    answer,         \* the last AgentManager call: what it returned, and the current
                    \* task it found
    context_manager \* the ContextManager of the text service: its fields, and the
                    \* number of add_message calls made on it

caller == <<recalled, snapshot, objs>>
more == <<planner_llm, planning, fetched, built, agents, answer, context_manager>>
vars == <<tasks, metas, clock, managers, tool_registry, llm_service, stack, log,
          recalled, snapshot, objs, returned, planner_llm, planning, fetched, built,
          agents, answer, context_manager>>

\* `returned` when the last step ended no call
NoRet == [task |-> 0, kind |-> "none", value |-> FALSE, error |-> None]

\* `planning` when plan_task was never called
NoPlanning == [pc |-> "idle", task |-> 0, complexity_level |-> 0, kind |-> "none",
               value |-> 0, reply |-> "none"]
\* `fetched` when the last step was no get_task_history
NoFetch == [given |-> FALSE, limit |-> 0, entries |-> <<>>, called |-> FALSE]
\* `built` when the last step was no from_dict
NoBuilt == [source |-> 0, task |-> 0]
\* An AgentManager not constructed yet
NoAgent == [memory_manager |-> None, current_task |-> 0]
\* `answer` when the last step ended no AgentManager call
NoAnswer == [agent |-> None, op |-> None, task |-> 0, found |-> FALSE, previous |-> 0]

\* The ContextManager before its construction
NoContext == [constructed |-> FALSE, conversation_history |-> <<>>,
              max_context_length |-> 0, added |-> 0]

\* `recalled` when the last step was no recall
NoRecall == [m |-> None, key |-> None, default |-> None, value |-> None]
\* `snapshot` before get_memory_snapshot was called
NoSnapshot == [m |-> None, short_term_memory |-> <<>>, long_term_memory |-> <<>>,
               task_history_count |-> 0]

\* ------------------------------------------------------------ dict helpers
Put(m, k, v) == (k :> v) @@ m
Del(m, k) == [x \in (DOMAIN m) \ {k} |-> m[x]]
EmptyDict == [x \in {} |-> None]

\* ------------------------------------------------------------------- Task
\* Task(name, description, parent_id): the dataclass defaults.  `id` is the
\* fresh uuid and `meta` the reference of the fresh metadata dict.
Task(id, name, description, parent, meta) ==
    [id |-> id, name |-> name, description |-> description, status |-> PENDING,
     parent_id |-> parent, subtasks |-> <<>>,
     created_at |-> clock, updated_at |-> clock, completed_at |-> NoTime,
     metadata |-> meta]

EmptyMeta == [error |-> None, note |-> None]

\* UpdateStatus with the time of the call written to the wrong field
UpdateStatusWrongStamp(t, status) ==
    [t EXCEPT !.status = status,
              !.created_at = clock,
              !.completed_at = IF status = COMPLETED THEN clock ELSE @]

\* UpdateStatus with completed_at assigned for both final statuses
UpdateStatusFinal(t, status) ==
    [t EXCEPT !.status = status,
              !.updated_at = clock,
              !.completed_at = IF status \in {COMPLETED, FAILED} THEN clock ELSE @]

\* Task.update_status
UpdateStatus(t, status) ==
    [t EXCEPT !.status = status,
              !.updated_at = clock,
              !.completed_at = IF status = COMPLETED THEN clock ELSE @]

\* Task.to_dict: a new dict whose "subtasks" is a new list of the children's
\* dicts and whose "metadata" is the task's own metadata dict (a reference).
RECURSIVE ToDictIn(_, _)
ToDictIn(ts, id) ==
    [id |-> ts[id].id, name |-> ts[id].name, description |-> ts[id].description,
     status |-> Value(ts[id].status), parent_id |-> ts[id].parent_id,
     subtasks |-> [j \in 1..Len(ts[id].subtasks) |-> ToDictIn(ts, ts[id].subtasks[j])],
     created_at |-> ts[id].created_at, updated_at |-> ts[id].updated_at,
     completed_at |-> ts[id].completed_at, metadata |-> ts[id].metadata]

ToDict(id) == ToDictIn(tasks, id)

RECURSIVE NumLeaves(_)
NumLeaves(id) ==
    IF tasks[id].subtasks = <<>> THEN 1
    ELSE LET RECURSIVE Sum(_)
             Sum(j) == IF j = 0 THEN 0 ELSE NumLeaves(tasks[id].subtasks[j]) + Sum(j - 1)
         IN Sum(Len(tasks[id].subtasks))

\* ---------------------------------------------------------- MemoryManager
\* MemoryManager.__init__
NewManager == [short_term_memory |-> EmptyDict, long_term_memory |-> EmptyDict,
               task_history |-> <<>>]

\* Remembered with every value stored in long-term memory as well
RememberedLongTerm(mm, key, value, long_term) ==
    [mm EXCEPT !.short_term_memory = Put(@, key, value),
               !.long_term_memory = Put(@, key, value)]

\* MemoryManager.remember
Remembered(mm, key, value, long_term) ==
    [mm EXCEPT !.short_term_memory = Put(@, key, value),
               !.long_term_memory = IF long_term THEN Put(@, key, value) ELSE @]

\* Recall with the promotion into short-term memory left out
RecallNoPromotion(mm, key, default) ==
    IF key \in DOMAIN mm.short_term_memory
    THEN [value |-> mm.short_term_memory[key], mm |-> mm]
    ELSE IF key \in DOMAIN mm.long_term_memory
         THEN [value |-> mm.long_term_memory[key], mm |-> mm]
         ELSE [value |-> default, mm |-> mm]

\* MemoryManager.recall: the value returned and the manager afterwards
Recalled(mm, key, default) ==
    IF key \in DOMAIN mm.short_term_memory
    THEN [value |-> mm.short_term_memory[key], mm |-> mm]
    ELSE IF key \in DOMAIN mm.long_term_memory
         THEN LET value == mm.long_term_memory[key]
              IN [value |-> value,
                  mm |-> [mm EXCEPT !.short_term_memory = Put(@, key, value)]]
         ELSE [value |-> default, mm |-> mm]

\* Forgotten with the long_term flag ignored
ForgottenBoth(mm, key, long_term) ==
    [mm EXCEPT !.short_term_memory = Del(@, key), !.long_term_memory = Del(@, key)]

\* MemoryManager.forget
Forgotten(mm, key, long_term) ==
    [mm EXCEPT !.short_term_memory = Del(@, key),
               !.long_term_memory = IF long_term THEN Del(@, key) ELSE @]

\* MemoryManager.clear_short_term_memory
Cleared(mm) == [mm EXCEPT !.short_term_memory = EmptyDict]

\* MemoryManager.get_memory_snapshot: dict.copy() makes a new dict that holds
\* the same values, so a value that is a reference is shared with the copy.
MemorySnapshot(mm) ==
    [short_term_memory |-> mm.short_term_memory,
     long_term_memory |-> mm.long_term_memory,
     task_history_count |-> Len(mm.task_history)]

\* AddedToHistory with the bug that only successful tasks are recorded
AddedToHistoryOnSuccess(mm, dict) ==
    IF dict.status = Value(COMPLETED) THEN [mm EXCEPT !.task_history = Append(@, dict)] ELSE mm

\* MemoryManager.add_task_to_history, given the dict to_dict built
AddedToHistory(mm, dict) == [mm EXCEPT !.task_history = Append(@, dict)]

Init ==
    /\ tasks = <<>>
    /\ metas = <<>>
    /\ clock = 0
    /\ managers = [m \in Instances |-> NewManager]
    /\ tool_registry = {}
    /\ llm_service \in BOOLEAN
    /\ stack = <<>>
    /\ log = <<>>
    /\ recalled = NoRecall
    /\ snapshot = NoSnapshot
    /\ objs = [o \in ObjRefs |-> <<>>]
    /\ returned = NoRet
    /\ planner_llm = FALSE
    /\ planning = NoPlanning
    /\ fetched = NoFetch
    /\ built = NoBuilt
    /\ agents = [a \in Agents |-> NoAgent]
    /\ answer = NoAnswer
    /\ context_manager = NoContext

\* The history of the MemoryManager the engine works on
History == managers["first"].task_history

\* ------------------------------------------------------------ construction
\* TaskPlanner.create_task: a new root Task
CreateTask(name, description) ==
    /\ stack = <<>>
    /\ Len(tasks) < MaxTasks
    /\ Cardinality({t \in 1..Len(tasks) : tasks[t].parent_id = NoParent}) < MaxRoots
    /\ tasks' = Append(tasks, Task(Len(tasks) + 1, name, description, NoParent,
                                   Len(metas) + 1))
    /\ metas' = Append(metas, EmptyMeta)
    /\ returned' = NoRet
    /\ UNCHANGED <<more, caller, clock, managers, tool_registry, llm_service, stack, log>>

\* AddedSubtask with the child constructed without its parent's id
AddedSubtaskOrphan(ts, p, name, description, meta) ==
    LET c == Len(ts) + 1
    IN Append([ts EXCEPT ![p].subtasks = Append(@, c)],
              Task(c, name, description, NoParent, meta))

\* AddedSubtask with the child inserted before its siblings
AddedSubtaskFirst(ts, p, name, description, meta) ==
    LET c == Len(ts) + 1
    IN Append([ts EXCEPT ![p].subtasks = <<c>> \o @],
              Task(c, name, description, ts[p].id, meta))

\* Task.add_subtask(name, description) on task object p of the heap ts: the
\* heap with the child constructed and appended to p.subtasks
AddedSubtask(ts, p, name, description, meta) ==
    LET c == Len(ts) + 1
    IN Append([ts EXCEPT ![p].subtasks = Append(@, c)],
              Task(c, name, description, ts[p].id, meta))

\* A caller's p.add_subtask(name, description)
AddSubtask(p, name, description) ==
    /\ stack = <<>>
    /\ Len(tasks) < MaxTasks
    /\ tasks' = AddedSubtask(tasks, p, name, description, Len(metas) + 1)
    /\ metas' = Append(metas, EmptyMeta)
    /\ returned' = NoRet
    /\ UNCHANGED <<more, caller, clock, managers, tool_registry, llm_service, stack, log>>

\* ExecutionEngine.register_tool
RegisterTool(name) ==
    /\ stack = <<>>
    /\ tool_registry' = tool_registry \cup {name}
    /\ returned' = NoRet
    /\ UNCHANGED <<more, caller, tasks, metas, clock, managers, llm_service, stack, log>>

\* A caller's task.metadata["note"] = v on the live task
WriteMetadata(t, v) ==
    /\ stack = <<>>
    /\ metas' = [metas EXCEPT ![tasks[t].metadata].note = v]
    /\ returned' = NoRet
    /\ UNCHANGED <<more, caller, tasks, clock, managers, tool_registry, llm_service, stack, log>>

\* ------------------------------------------------------------ execute_task
Top == stack[Len(stack)]

\* The frame of a fresh call execute_task(t), after lines 424-428.  `calls`
\* lists the tool calls of the call that returned: step index, tool, result.
Frame(t) ==
    [task |-> t, i |-> 1, all_success |-> TRUE,
     pc |-> IF tasks[t].subtasks # <<>> THEN "children" ELSE "leaf",
     steps |-> <<>>, si |-> 0, calls |-> <<>>]

\* Enter with the children started along with their parent
EnterFanOut(t, base) ==
    /\ tasks' = [o \in 1..Len(tasks) |->
                    IF o = t \/ tasks[o].parent_id = tasks[t].id
                    THEN UpdateStatus(tasks[o], IN_PROGRESS) ELSE tasks[o]]
    /\ stack' = Append(stack, Frame(t))
    /\ log' = Append(base, t)

\* Lines 424-425 of a call execute_task(t) made with `base` already logged
Enter(t, base) ==
    /\ tasks' = [tasks EXCEPT ![t] = UpdateStatus(@, IN_PROGRESS)]
    /\ stack' = Append(stack, Frame(t))
    /\ log' = Append(base, t)

\* Aggregate with the bug `all_success = success`: the last child decides
AggregateLastWins(all_success, success) == success

\* Lines 432-433: the loop's bookkeeping after a child returned `success`
Aggregate(all_success, success) == all_success /\ success

\* LoopDone with a `break` after the first failed child
LoopDoneShortCircuit(f) == f.i > Len(tasks[f.task].subtasks) \/ ~f.all_success

\* Line 430: the for loop over task.subtasks has no more child to run
LoopDone(f) == f.i > Len(tasks[f.task].subtasks)

\* The call of the top frame ends with `out`: a returned value goes to the
\* caller's loop; a raised exception meets no handler on lines 428-443 and
\* unwinds every caller.
Deliver(out) ==
    /\ returned' = [task |-> Top.task, kind |-> out.kind, value |-> out.value,
                    error |-> out.msg]
    /\ stack' = IF out.kind = "raise" THEN <<>>
                ELSE LET rest == SubSeq(stack, 1, Len(stack) - 1)
                     IN IF rest = <<>> THEN <<>>
                        ELSE [rest EXCEPT ![Len(rest)].all_success = Aggregate(@, out.value),
                                          ![Len(rest)].i = @ + 1]

Returns(value) == [kind |-> "return", value |-> value, msg |-> None]
Raises(msg) == [kind |-> "raise", value |-> FALSE, msg |-> msg]

\* A top-level call execute_task(t)
ExecuteTask(t) ==
    /\ stack = <<>>
    /\ Len(managers["first"].task_history) + NumLeaves(t) <= MaxHistory
    /\ Enter(t, <<>>)
    /\ returned' = NoRet
    /\ UNCHANGED <<more, caller, metas, clock, managers, tool_registry, llm_service>>

\* Line 431: the recursive call on the next child
CallChild ==
    /\ stack # <<>>
    /\ Top.pc = "children"
    /\ ~LoopDone(Top)
    /\ Enter(tasks[Top.task].subtasks[Top.i], log)
    /\ returned' = NoRet
    /\ UNCHANGED <<more, caller, metas, clock, managers, tool_registry, llm_service>>

\* ParentStatus with a parent of failed children left running
ParentStatusPartial(all_success) == IF all_success THEN COMPLETED ELSE IN_PROGRESS

\* ParentStatus with a parent of failed children called off
ParentStatusCancelled(all_success) == IF all_success THEN COMPLETED ELSE CANCELLED

\* Lines 436-441: the status the parent is given
ParentStatus(all_success) == IF all_success THEN COMPLETED ELSE FAILED

\* Lines 436-443: the parent's own status and return value
FinishParent ==
    /\ stack # <<>>
    /\ Top.pc = "children"
    /\ LoopDone(Top)
    /\ tasks' = [tasks EXCEPT ![Top.task] = UpdateStatus(@, ParentStatus(Top.all_success))]
    /\ Deliver(Returns(Top.all_success))
    /\ UNCHANGED <<more, caller, metas, clock, managers, tool_registry, llm_service, log>>

\* ExceptLLM with the handler's return value inverted
ExceptLLMTrue(msg) == [kind |-> "return", value |-> TRUE, msg |-> msg]

\* Lines 552-554: _execute_with_llm's own handler logs the error, returns False
ExceptLLM(msg) == [kind |-> "return", value |-> FALSE, msg |-> msg]

\* Lines 466-475: execute_task's handler; FALSE when nothing is to be written
ErrorWritten(out) == out.kind = "raise"

\* Lines 453-475: what execute_task does with the outcome of the leaf procedure
FinishLeaf(out) ==
    LET t == Top.task
        success == out.kind = "return" /\ out.value
        ts == [tasks EXCEPT ![t] = UpdateStatus(@, IF success THEN COMPLETED ELSE FAILED)]
    IN /\ tasks' = ts
       /\ metas' = IF ErrorWritten(out)
                   THEN [metas EXCEPT ![tasks[t].metadata].error = out.msg]
                   ELSE metas
       /\ managers' = [managers EXCEPT !["first"] = AddedToHistory(@, ToDictIn(ts, t))]
       /\ Deliver([kind |-> "return", value |-> success, msg |-> out.msg])

\* _execute_basic: its body is not in the source, so every way a call can end
\* is allowed: either boolean, or an exception (which lines 466-475 handle)
BasicOutcomes == {Returns(TRUE), Returns(FALSE), Raises(BasicError)}

\* Lines 449-451 with no llm_service
LeafBasic(out) ==
    /\ stack # <<>>
    /\ Top.pc = "leaf"
    /\ ~llm_service
    /\ FinishLeaf(out)
    /\ UNCHANGED <<more, caller, clock, tool_registry, llm_service, log>>

\* Lines 511-512: generate_text or parse_json_response raises
PlanRaises ==
    /\ stack # <<>>
    /\ Top.pc = "leaf"
    /\ llm_service
    /\ FinishLeaf(ExceptLLM(ServiceError))
    /\ UNCHANGED <<more, caller, clock, tool_registry, llm_service, log>>

\* Lines 514-516: the reply does not parse to a list
PlanMalformed ==
    /\ stack # <<>>
    /\ Top.pc = "leaf"
    /\ llm_service
    /\ FinishLeaf([kind |-> "return", value |-> FALSE, msg |-> MalformedReply])
    /\ UNCHANGED <<more, caller, clock, tool_registry, llm_service, log>>

\* Lines 511-519: the reply parses to the list `steps`
PlanSteps(steps) ==
    /\ stack # <<>>
    /\ Top.pc = "leaf"
    /\ llm_service
    /\ stack' = [stack EXCEPT ![Len(stack)].pc = "llm_steps",
                              ![Len(stack)].steps = steps,
                              ![Len(stack)].si = 0]
    /\ returned' = NoRet
    /\ UNCHANGED <<more, caller, tasks, metas, clock, managers, tool_registry, llm_service, log>>

\* f"step_{i}_result"
StepKey(i) == "step_" \o ToString(i) \o "_result"

InSteps == stack # <<>> /\ Top.pc = "llm_steps" /\ Top.si < Len(Top.steps)
StepTool == Top.steps[Top.si + 1]

\* The tool call of the step the loop is at, when it returned `result`
Call(result) == [step |-> Top.si, tool |-> StepTool, result |-> result]

\* StepInvoke with the results numbered by the tools invoked so far
StepInvokeCompact(result) ==
    /\ InSteps
    /\ StepTool \in tool_registry
    /\ managers' = [managers EXCEPT !["first"] =
                        Remembered(@, StepKey(Len(Top.calls)), result, FALSE)]
    /\ stack' = [stack EXCEPT ![Len(stack)].si = @ + 1,
                              ![Len(stack)].calls = Append(@, Call(result))]
    /\ returned' = NoRet
    /\ UNCHANGED <<more, caller, tasks, metas, clock, tool_registry, llm_service, log>>

\* Lines 526-532: the tool is registered and returns `result`
StepInvoke(result) ==
    /\ InSteps
    /\ StepTool \in tool_registry
    /\ managers' = [managers EXCEPT !["first"] =
                        Remembered(@, StepKey(Top.si), result, FALSE)]
    /\ stack' = [stack EXCEPT ![Len(stack)].si = @ + 1,
                              ![Len(stack)].calls = Append(@, Call(result))]
    /\ returned' = NoRet
    /\ UNCHANGED <<more, caller, tasks, metas, clock, tool_registry, llm_service, log>>

\* StepRaises with the error of a tool passed over
StepRaisesGoesOn ==
    /\ InSteps
    /\ StepTool \in tool_registry
    /\ stack' = [stack EXCEPT ![Len(stack)].si = @ + 1]
    /\ returned' = NoRet
    /\ UNCHANGED <<more, caller, tasks, metas, clock, managers, tool_registry, llm_service, log>>

\* Line 528: the tool is registered and raises
StepRaises ==
    /\ InSteps
    /\ StepTool \in tool_registry
    /\ FinishLeaf(ExceptLLM(ToolError))
    /\ UNCHANGED <<more, caller, clock, tool_registry, llm_service, log>>

\* StepSkip with an unregistered tool treated as a failed step
StepSkipFails ==
    /\ InSteps
    /\ StepTool \notin tool_registry
    /\ FinishLeaf(ExceptLLM(ToolError))
    /\ UNCHANGED <<more, caller, clock, tool_registry, llm_service, log>>

\* Lines 533-534: the tool is not registered
StepSkip ==
    /\ InSteps
    /\ StepTool \notin tool_registry
    /\ stack' = [stack EXCEPT ![Len(stack)].si = @ + 1]
    /\ returned' = NoRet
    /\ UNCHANGED <<more, caller, tasks, metas, clock, managers, tool_registry, llm_service, log>>

AtEval == stack # <<>> /\ Top.pc = "llm_steps" /\ Top.si = Len(Top.steps)

\* Line 549: generate_text raises on the evaluation prompt
EvalRaises ==
    /\ AtEval
    /\ FinishLeaf(ExceptLLM(ServiceError))
    /\ UNCHANGED <<more, caller, clock, tool_registry, llm_service, log>>

\* str.lower on the characters the replies use
Lower(c) == CASE c = "Y" -> "y" [] c = "E" -> "e" [] c = "S" -> "s"
              [] c = "N" -> "n" [] c = "O" -> "o" [] OTHER -> c

\* "yes" in evaluation, after .strip().lower()
ContainsYes(reply) ==
    LET low == [j \in 1..Len(reply) |-> Lower(reply[j])]
    IN \E j \in 1..(Len(low) - 2) : SubSeq(low, j, j + 2) = <<"y", "e", "s">>

\* Replies of the text service to the evaluation prompt, as character sequences
Replies == {<<"y", "e", "s">>, <<"n", "o">>, <<" ", "Y", "E", "S", ".">>, <<"y", "e">>}

\* Lines 549-550: the evaluation reply arrives
Evaluate(reply) ==
    /\ AtEval
    /\ FinishLeaf(Returns(ContainsYes(reply)))
    /\ UNCHANGED <<more, caller, clock, tool_registry, llm_service, log>>

StepLists == UNION {[1..n -> StepTools] : n \in 0..MaxSteps}

Next ==
    \/ \E name \in Names, description \in Descriptions : CreateTask(name, description)
    \/ \E p \in 1..Len(tasks), name \in Names, description \in Descriptions :
          AddSubtask(p, name, description)
    \/ \E name \in Registrable : RegisterTool(name)
    \/ \E t \in 1..Len(tasks) : ExecuteTask(t)
    \/ CallChild
    \/ FinishParent
    \/ \E out \in BasicOutcomes : LeafBasic(out)
    \/ PlanRaises
    \/ PlanMalformed
    \/ \E steps \in StepLists : PlanSteps(steps)
    \/ \E result \in ToolResults : StepInvoke(result)
    \/ StepRaises
    \/ StepSkip
    \/ EvalRaises
    \/ \E reply \in Replies : Evaluate(reply)

Spec == Init /\ [][Next]_vars

\* ----------------------------------------------- callers of MemoryManager
Remember(m, key, value, long_term) ==
    /\ managers' = [managers EXCEPT ![m] = Remembered(@, key, value, long_term)]
    /\ recalled' = NoRecall
    /\ UNCHANGED <<more, tasks, metas, clock, tool_registry, llm_service, stack, log,
                   snapshot, objs, returned>>

Recall(m, key, default) ==
    /\ managers' = [managers EXCEPT ![m] = Recalled(@, key, default).mm]
    /\ recalled' = [m |-> m, key |-> key, default |-> default,
                    value |-> Recalled(managers[m], key, default).value]
    /\ UNCHANGED <<more, tasks, metas, clock, tool_registry, llm_service, stack, log,
                   snapshot, objs, returned>>

Forget(m, key, long_term) ==
    /\ managers' = [managers EXCEPT ![m] = Forgotten(@, key, long_term)]
    /\ recalled' = NoRecall
    /\ UNCHANGED <<more, tasks, metas, clock, tool_registry, llm_service, stack, log,
                   snapshot, objs, returned>>

ClearShortTermMemory(m) ==
    /\ managers' = [managers EXCEPT ![m] = Cleared(@)]
    /\ recalled' = NoRecall
    /\ UNCHANGED <<more, tasks, metas, clock, tool_registry, llm_service, stack, log,
                   snapshot, objs, returned>>

NextMem ==
    \/ \E m \in Instances, key \in Keys, value \in Values, long_term \in BOOLEAN :
          Remember(m, key, value, long_term)
    \/ \E m \in Instances, key \in Keys, default \in Defaults : Recall(m, key, default)
    \/ \E m \in Instances, key \in Keys, long_term \in BOOLEAN : Forget(m, key, long_term)
    \/ \E m \in Instances : ClearShortTermMemory(m)

\* The callers of one or two MemoryManager instances
SpecMem == Init /\ [][NextMem]_vars

\* ------------------------------------- callers of get_memory_snapshot
GetMemorySnapshot(m) ==
    /\ snapshot' = [m |-> m] @@ MemorySnapshot(managers[m])
    /\ recalled' = NoRecall
    /\ UNCHANGED <<more, tasks, metas, clock, managers, tool_registry, llm_service, stack,
                   log, objs, returned>>

SnapMaps == {"short_term_memory", "long_term_memory"}

\* snapshot[which][key] = value, by the caller that holds the snapshot
SnapSetKey(which, key, value) ==
    /\ snapshot # NoSnapshot
    /\ snapshot' = [snapshot EXCEPT ![which] = Put(@, key, value)]
    /\ UNCHANGED <<more, tasks, metas, clock, managers, tool_registry, llm_service, stack,
                   log, recalled, objs, returned>>

\* del snapshot[which][key]
SnapDelKey(which, key) ==
    /\ snapshot # NoSnapshot
    /\ key \in DOMAIN snapshot[which]
    /\ snapshot' = [snapshot EXCEPT ![which] = Del(@, key)]
    /\ UNCHANGED <<more, tasks, metas, clock, managers, tool_registry, llm_service, stack,
                   log, recalled, objs, returned>>

\* snapshot[which][key].append("x"), the value being a list
SnapMutateNested(which, key) ==
    /\ snapshot # NoSnapshot
    /\ key \in DOMAIN snapshot[which]
    /\ snapshot[which][key] \in ObjRefs
    /\ Len(objs[snapshot[which][key]]) < MaxAppends
    /\ objs' = [objs EXCEPT ![snapshot[which][key]] = Append(@, "x")]
    /\ UNCHANGED <<more, tasks, metas, clock, managers, tool_registry, llm_service, stack,
                   log, recalled, snapshot, returned>>

SnapshotMutation ==
    \/ \E which \in SnapMaps, key \in Keys : SnapSetKey(which, key, "w")
    \/ \E which \in SnapMaps, key \in Keys : SnapDelKey(which, key)
    \/ \E which \in SnapMaps, key \in Keys : SnapMutateNested(which, key)

NextSnap ==
    \/ \E key \in Keys, value \in {"v"} \cup ObjRefs, long_term \in BOOLEAN :
          Remember("first", key, value, long_term)
    \/ GetMemorySnapshot("first")
    \/ SnapshotMutation

\* One MemoryManager whose values may be lists, and a caller of its snapshot
SpecSnap == Init /\ [][NextSnap]_vars

\* -------------------------------------------- engine and metadata writers
NextCaller ==
    \/ Next
    \/ \E t \in 1..Len(tasks), v \in NoteValues : WriteMetadata(t, v)

\* The engine, and a caller that writes task.metadata between its calls
SpecCaller == Init /\ [][NextCaller]_vars

\* ----------------------------------------------------- get_task_history
MaxLimit == 3      \* largest limit a caller passes to get_task_history
Limits == 0..MaxLimit

\* seq[start:] as Python evaluates it: a negative start counts from the end
\* and is clipped at the first element, a start past the end gives []
SliceFrom(seq, start) ==
    LET n == Len(seq)
        first == IF start < 0
                 THEN (IF n + start < 0 THEN 0 ELSE n + start)
                 ELSE (IF start > n THEN n ELSE start)
    IN SubSeq(seq, first + 1, n)

\* MemoryManager.get_task_history(limit); `given` is FALSE for limit=None
TaskHistory(mm, given, limit) ==
    IF ~given THEN mm.task_history ELSE SliceFrom(mm.task_history, 0 - limit)

\* A caller's memory.add_task_to_history(t)
AddTaskToHistory(t) ==
    /\ stack = <<>>
    /\ Len(managers["first"].task_history) < MaxHistory
    /\ managers' = [managers EXCEPT !["first"] = AddedToHistory(@, ToDict(t))]
    /\ UNCHANGED <<more, caller, tasks, metas, clock, tool_registry, llm_service, stack,
                   log, returned>>

\* A caller's memory.get_task_history(limit)
GetTaskHistory(given, limit) ==
    /\ stack = <<>>
    /\ fetched' = [given |-> given, limit |-> limit, called |-> TRUE,
                   entries |-> TaskHistory(managers["first"], given, limit)]
    /\ UNCHANGED <<context_manager, caller, tasks, metas, clock, managers, tool_registry, llm_service,
                   stack, log, returned, planner_llm, planning, built, agents, answer>>

NextHist ==
    \/ \E name \in Names, description \in Descriptions : CreateTask(name, description)
    \/ \E p \in 1..Len(tasks), name \in Names, description \in Descriptions :
          AddSubtask(p, name, description)
    \/ \E t \in 1..Len(tasks) : AddTaskToHistory(t)
    \/ GetTaskHistory(FALSE, 0)
    \/ \E limit \in Limits : GetTaskHistory(TRUE, limit)

\* Callers that fill the history and read it back
SpecHist == Init /\ [][NextHist]_vars

\* ------------------------------------------- the Task model and its callers
MaxClock == 1      \* largest reading of time.time()

\* The tasks create_task made
Roots == {t \in 1..Len(tasks) : tasks[t].parent_id = NoParent}

\* Time passes between two calls
Tick ==
    /\ clock < MaxClock
    /\ clock' = clock + 1
    /\ UNCHANGED <<more, caller, tasks, metas, managers, tool_registry, llm_service,
                   stack, log, returned>>

\* Task o is as its constructor left it
Pristine(o) ==
    /\ tasks[o].status = PENDING
    /\ tasks[o].updated_at = tasks[o].created_at
    /\ tasks[o].completed_at = NoTime

\* A caller's t.update_status(status), on the one task of the scenario whose
\* status the caller sets
UpdateStatusCall(t, status) ==
    /\ stack = <<>>
    /\ \A o \in (1..Len(tasks)) \ {t} : Pristine(o)
    /\ tasks' = [tasks EXCEPT ![t] = UpdateStatus(@, status)]
    /\ UNCHANGED <<more, caller, metas, clock, managers, tool_registry, llm_service,
                   stack, log, returned>>

\* TaskFromDict with completed_at left at the constructor's default
TaskFromDictNoCompletedAt(data) ==
    [id |-> data.id, name |-> data.name, description |-> data.description,
     status |-> TaskStatusOf(data.status), parent_id |-> data.parent_id,
     subtasks |-> <<>>, created_at |-> data.created_at,
     updated_at |-> data.updated_at, completed_at |-> NoTime,
     metadata |-> data.metadata]

\* TaskFromDict with the status left at the constructor's default
TaskFromDictPending(data) ==
    [id |-> data.id, name |-> data.name, description |-> data.description,
     status |-> PENDING, parent_id |-> data.parent_id,
     subtasks |-> <<>>, created_at |-> data.created_at,
     updated_at |-> data.updated_at, completed_at |-> data.completed_at,
     metadata |-> data.metadata]

\* Lines 140-151 of Task.from_dict: the Task constructed from a dict that has
\* every key; "metadata" is the dict's own metadata object (a reference)
TaskFromDict(data) ==
    [id |-> data.id, name |-> data.name, description |-> data.description,
     status |-> TaskStatusOf(data.status), parent_id |-> data.parent_id,
     subtasks |-> <<>>, created_at |-> data.created_at,
     updated_at |-> data.updated_at, completed_at |-> data.completed_at,
     metadata |-> data.metadata]

\* Task.from_dict(data) on the heap ts: the heap with the new objects, parent
\* before children, and the Task returned
RECURSIVE FromDictIn(_, _)
FromDictIn(ts, data) ==
    LET t == Len(ts) + 1
        RECURSIVE Children(_, _)
        Children(heap, j) ==
            IF j > Len(data.subtasks) THEN heap
            ELSE LET sub == FromDictIn(heap, data.subtasks[j])
                 IN Children([sub.ts EXCEPT ![t].subtasks = Append(@, sub.task)], j + 1)
    IN [ts |-> Children(Append(ts, TaskFromDict(data)), 1), task |-> t]

\* A caller's Task.from_dict(t.to_dict())
FromDictCall(t) ==
    /\ stack = <<>>
    /\ built = NoBuilt
    /\ tasks' = FromDictIn(tasks, ToDict(t)).ts
    /\ built' = [source |-> t, task |-> FromDictIn(tasks, ToDict(t)).task]
    /\ UNCHANGED <<context_manager, caller, metas, clock, managers, tool_registry, llm_service, stack, log,
                   returned, planner_llm, planning, fetched, agents, answer>>

\* One tree is built, annotated and updated while time passes, and then
\* serialized and rebuilt
NextTask ==
    \/ /\ built = NoBuilt
       /\ \/ \E name \in Names, description \in Descriptions :
                tasks = <<>> /\ CreateTask(name, description)
          \/ \E p \in 1..Len(tasks), name \in Names, description \in Descriptions :
                AddSubtask(p, name, description)
          \/ Tick
          \/ \E t \in 1..Len(tasks), status \in TaskStatus : UpdateStatusCall(t, status)
          \/ \E t \in Roots, v \in NoteValues : WriteMetadata(t, v)
    \/ \E t \in Roots : FromDictCall(t)

\* Callers of the Task model
SpecTask == Init /\ [][NextTask]_vars

\* ------------------------------------------------------------- TaskPlanner
MaxPlanTasks == 7  \* Task objects on the heap when plan_task is called and done
MaxReply == 2      \* length of the list the text service returns to the planner

\* complexity_level arguments
Levels == {1, 5}
\* Names of the tasks the callers plan
PlanNames == {<<"job">>, <<"development">>, <<"test", "implementation">>,
              <<"design", "test">>, <<"design">>}

\* `word in name`
In(word, name) == \E i \in 1..Len(name) : name[i] = word

Subtask(name, description) == [name |-> name, description |-> description]

DevelopmentSubtasks ==
    <<Subtask(<<"requirements analysis">>, <<"analyse the requirements">>),
      Subtask(<<"design">>, <<"design the feature">>),
      Subtask(<<"implementation">>, <<"implement the code">>),
      Subtask(<<"test">>, <<"test the feature">>),
      Subtask(<<"documentation">>, <<"document the usage">>)>>

TestSubtasks ==
    <<Subtask(<<"test", "plan">>, <<"write the test plan">>),
      Subtask(<<"test", "case authoring">>, <<"write the test cases">>),
      Subtask(<<"test", "execute">>, <<"run the tests">>),
      Subtask(<<"bug fixing">>, <<"fix the bugs found">>)>>

DesignSubtasks ==
    <<Subtask(<<"requirements confirmation">>, <<"confirm the requirements">>),
      Subtask(<<"architecture", "design">>, <<"design the architecture">>),
      Subtask(<<"detailed", "design">>, <<"make the detailed design">>),
      Subtask(<<"review">>, <<"review the design">>)>>

GenericSubtasks(name) ==
    <<Subtask(<<"plan">>, name \o <<"make the plan of">>),
      Subtask(<<"execute">>, name \o <<"execute">>),
      Subtask(<<"verify">>, name \o <<"verify the result of">>)>>

\* BasicSubtasks with the test rule tried before the development rule
BasicSubtasksTestFirst(name, complexity_level) ==
    IF In("test", name) THEN TestSubtasks
    ELSE IF In("development", name) \/ In("implementation", name)
         THEN DevelopmentSubtasks
         ELSE IF In("design", name) THEN DesignSubtasks
              ELSE GenericSubtasks(name)

\* TaskPlanner._generate_basic_subtasks: the add_subtask calls it makes, in order
BasicSubtasks(name, complexity_level) ==
    IF In("development", name) \/ In("implementation", name) THEN DevelopmentSubtasks
    ELSE IF In("test", name) THEN TestSubtasks
         ELSE IF In("design", name) THEN DesignSubtasks
              ELSE GenericSubtasks(name)

\* An element of the list the text service returns: a dict with the keys
\* `keys`, or something that is no dict
Element(dict, keys) ==
    [dict |-> dict, keys |-> keys, name |-> <<"step">>, description |-> <<"do it">>]
Elements == {Element(TRUE, {"name", "description"}), Element(TRUE, {}), Element(FALSE, {})}

\* What generate_text and parse_json_response give the planner: an exception,
\* a value that is no list, or a list
PlannerReplies ==
    {[kind |-> k, items |-> <<>>] : k \in {"raise", "other"}} \cup
    {[kind |-> "list", items |-> items] :
        items \in UNION {[1..n -> Elements] : n \in 0..MaxReply}}

\* subtask_data.get(key, "")
Get(element, key) == IF key \in element.keys THEN element[key] ELSE <<>>

\* GenerateSubtasksWithLLM that falls back to the rule table
GenerateSubtasksFallback(name, complexity_level, reply) ==
    IF reply.kind = "list" THEN reply.items
    ELSE [j \in 1..Len(BasicSubtasks(name, complexity_level)) |->
             [dict |-> TRUE, keys |-> {"name", "description"}] @@
             BasicSubtasks(name, complexity_level)[j]]

\* TaskPlanner._generate_subtasks_with_llm, lines 247-253
GenerateSubtasksWithLLM(name, complexity_level, reply) ==
    IF reply.kind = "list" THEN reply.items ELSE <<>>

\* The elements the loop of lines 200-205 handles before one raises
RECURSIVE Usable(_)
Usable(items) ==
    IF items = <<>> \/ ~Head(items).dict THEN <<>>
    ELSE <<Subtask(Get(Head(items), "name"), Get(Head(items), "description"))>>
         \o Usable(Tail(items))

\* p.add_subtask for each of `subtasks` in order, on the heap ts
RECURSIVE AddedSubtasks(_, _, _, _)
AddedSubtasks(ts, p, subtasks, meta) ==
    IF subtasks = <<>> THEN ts
    ELSE AddedSubtasks(AddedSubtask(ts, p, Head(subtasks).name,
                                    Head(subtasks).description, meta),
                       p, Tail(subtasks), meta + 1)

Idle == stack = <<>> /\ planning.pc = "idle"

\* TaskPlanner.__init__
TaskPlannerInit(service) ==
    /\ Idle
    /\ planner_llm' = service
    /\ UNCHANGED <<context_manager, caller, tasks, metas, clock, managers, tool_registry, llm_service,
                   stack, log, returned, planning, fetched, built, agents, answer>>

\* The most Task objects plan_task(t, complexity_level) may construct
PlanRoom(t, complexity_level) ==
    IF planner_llm THEN MaxReply
    ELSE Len(BasicSubtasks(tasks[t].name, complexity_level))

\* Line 196: plan_task(t, complexity_level) is called and sets PLANNING
PlanTask(t, complexity_level) ==
    /\ Idle
    /\ tasks' = [tasks EXCEPT ![t] = UpdateStatus(@, PLANNING)]
    /\ planning' = [pc |-> "decompose", task |-> t, complexity_level |-> complexity_level,
                    kind |-> "none", value |-> 0, reply |-> "none"]
    /\ UNCHANGED <<context_manager, caller, metas, clock, managers, tool_registry, llm_service, stack, log,
                   returned, planner_llm, fetched, built, agents, answer>>

\* Decompose with the children the task had dropped for the planned ones
DecomposeReplacing(subtasks, raised, reply) ==
    LET t == planning.task
        ts == AddedSubtasks([tasks EXCEPT ![t].subtasks = <<>>], t, subtasks,
                            Len(metas) + 1)
    IN /\ tasks' = IF raised THEN ts
                   ELSE [ts EXCEPT ![t] = UpdateStatus(@, IN_PROGRESS)]
       /\ metas' = metas \o [j \in 1..Len(subtasks) |-> EmptyMeta]
       /\ planning' = [pc |-> "idle", task |-> t, complexity_level |-> 0,
                       kind |-> IF raised THEN "raise" ELSE "return",
                       value |-> IF raised THEN 0 ELSE t, reply |-> reply]
       /\ UNCHANGED <<context_manager, caller, clock, managers, tool_registry,
                      llm_service, stack, log, returned, planner_llm, fetched, built,
                      agents, answer>>

\* Lines 198-211 after the subtasks to add are known: the add_subtask calls,
\* then IN_PROGRESS and the return, unless an element raised in the loop
Decompose(subtasks, raised, reply) ==
    LET t == planning.task
        ts == AddedSubtasks(tasks, t, subtasks, Len(metas) + 1)
    IN /\ tasks' = IF raised THEN ts
                   ELSE [ts EXCEPT ![t] = UpdateStatus(@, IN_PROGRESS)]
       /\ metas' = metas \o [j \in 1..Len(subtasks) |-> EmptyMeta]
       /\ planning' = [pc |-> "idle", task |-> t, complexity_level |-> 0,
                       kind |-> IF raised THEN "raise" ELSE "return",
                       value |-> IF raised THEN 0 ELSE t, reply |-> reply]
       /\ UNCHANGED <<context_manager, caller, clock, managers, tool_registry, llm_service, stack, log,
                      returned, planner_llm, fetched, built, agents, answer>>

\* Lines 206-208: no llm_service, the rule table
DecomposeBasic ==
    /\ planning.pc = "decompose"
    /\ ~planner_llm
    /\ Decompose(BasicSubtasks(tasks[planning.task].name, planning.complexity_level),
                 FALSE, "none")

\* Lines 198-205: the text service answers with `reply`
DecomposeLLM(reply) ==
    /\ planning.pc = "decompose"
    /\ planner_llm
    /\ LET items == GenerateSubtasksWithLLM(tasks[planning.task].name,
                                            planning.complexity_level, reply)
       IN Decompose(Usable(items), Len(Usable(items)) < Len(items), reply.kind)

NextPlan ==
    \/ \E service \in BOOLEAN : TaskPlannerInit(service)
    \/ \E name \in PlanNames, description \in Descriptions :
          Idle /\ tasks = <<>> /\ CreateTask(name, description)
    \/ \E p \in 1..Len(tasks), name \in Names, description \in Descriptions :
          Idle /\ AddSubtask(p, name, description)
    \/ \E t \in Roots, complexity_level \in Levels :
          /\ Len(tasks) + PlanRoom(t, complexity_level) <= MaxPlanTasks
          /\ PlanTask(t, complexity_level)
    \/ DecomposeBasic
    \/ \E reply \in PlannerReplies : DecomposeLLM(reply)

\* The planner and the callers that build and plan tasks
SpecPlan == Init /\ [][NextPlan]_vars

\* ------------------------------------------------- one tree, run to its end
NextRun ==
    \/ \E name \in Registrable : tasks = <<>> /\ RegisterTool(name)
    \/ \E name \in Names, description \in Descriptions :
          tasks = <<>> /\ CreateTask(name, description)
    \/ \E p \in 1..Len(tasks), name \in Names, description \in Descriptions :
          AddSubtask(p, name, description)
    \/ \E t \in Roots : ExecuteTask(t)
    \/ CallChild
    \/ FinishParent
    \/ \E out \in BasicOutcomes : LeafBasic(out)
    \/ PlanRaises
    \/ PlanMalformed
    \/ \E steps \in StepLists : PlanSteps(steps)
    \/ \E result \in ToolResults : StepInvoke(result)
    \/ StepRaises
    \/ StepSkip
    \/ EvalRaises
    \/ \E reply \in Replies : Evaluate(reply)

\* A call of execute_task is running and takes its next step
Running == stack # <<>> /\ NextRun

\* The engine on one tree, its running call always taking its next step:
\* every call it makes on a tool or on the text service returns or raises
SpecFair == Init /\ [][NextRun]_vars /\ WF_vars(Running)

\* ------------------------------------------------ leaves with longer plans
MaxLeafSteps == 2  \* length of the step list of a leaf that is run on its own

LeafStepLists == UNION {[1..n -> StepTools] : n \in 0..MaxLeafSteps}

NextLeaf ==
    \/ \E name \in Names, description \in Descriptions : CreateTask(name, description)
    \/ \E name \in Registrable : RegisterTool(name)
    \/ \E t \in 1..Len(tasks) : ExecuteTask(t)
    \/ PlanRaises
    \/ PlanMalformed
    \/ \E steps \in LeafStepLists : PlanSteps(steps)
    \/ \E result \in ToolResults : StepInvoke(result)
    \/ StepRaises
    \/ StepSkip
    \/ EvalRaises
    \/ \E reply \in Replies : Evaluate(reply)

\* The engine with a text service, run on tasks without children
SpecLeaf == Init /\ [][NextLeaf]_vars

\* ------------------------------------------- siblings with longer plans
\* What the tools of the scenario return
StepResults == {"r1", "r2"}

NextSteps ==
    \/ \E name \in Registrable : tasks = <<>> /\ RegisterTool(name)
    \/ \E name \in Names, description \in Descriptions :
          tasks = <<>> /\ CreateTask(name, description)
    \/ \E p \in Roots, name \in Names, description \in Descriptions :
          History = <<>> /\ AddSubtask(p, name, description)
    \/ \E t \in Roots : llm_service /\ ExecuteTask(t)
    \/ CallChild
    \/ FinishParent
    \/ PlanRaises
    \/ PlanMalformed
    \/ \E steps \in LeafStepLists : PlanSteps(steps)
    \/ \E result \in StepResults : StepInvoke(result)
    \/ StepRaises
    \/ StepSkip
    \/ EvalRaises
    \/ \E reply \in Replies : Evaluate(reply)

\* The engine with a text service, run on a task and on a task with leaves
\* as children, the tools returning different results
SpecSteps == Init /\ [][NextSteps]_vars

\* ------------------------------------------------------------ AgentManager
\* The class is used by tests/test_agent_core.py and src/ui/main_app.py, but
\* its source is not among the repository's files; it is modelled from
\* section 4.5 of the specification.
MaxAgentTasks == 24    \* Task objects on the heap of an AgentManager scenario
MaxAgentHistory == 5   \* history entries written by execute_current_task

\* Instructions the callers give
Texts == {<<"job">>, <<"development">>}
\* The long-term key of the saved task
CurrentTaskKey == "current_task"

\* The fixed five-stage breakdown
DefaultSubtasks ==
    <<Subtask(<<"analyze">>, <<"analyze">>), Subtask(<<"plan">>, <<"plan">>),
      Subtask(<<"execute">>, <<"execute">>), Subtask(<<"verify">>, <<"verify">>),
      Subtask(<<"report">>, <<"report">>)>>

Constructed(a) == agents[a] # NoAgent

\* AgentManager(), holding the MemoryManager instance m
AgentManagerInit(a, m) ==
    /\ Idle
    /\ ~Constructed(a)
    /\ agents' = [agents EXCEPT ![a] = [memory_manager |-> m, current_task |-> 0]]
    /\ UNCHANGED <<context_manager, caller, tasks, metas, clock, managers, tool_registry, llm_service,
                   stack, log, returned, planner_llm, planning, fetched, built, answer>>

\* process_instruction(text): the root task of the text, its five subtasks
\* added with add_subtask, and the root made the current task
ProcessInstruction(a, text) ==
    /\ Idle
    /\ Constructed(a)
    /\ Len(tasks) + 1 + Len(DefaultSubtasks) <= MaxAgentTasks
    /\ LET root == Len(tasks) + 1
           ts == Append(tasks, Task(root, text, text, NoParent, Len(metas) + 1))
       IN /\ tasks' = AddedSubtasks(ts, root, DefaultSubtasks, Len(metas) + 2)
          /\ agents' = [agents EXCEPT ![a].current_task = root]
          /\ answer' = [agent |-> a, op |-> "process_instruction", task |-> root,
                        found |-> FALSE, previous |-> agents[a].current_task]
    /\ metas' = metas \o [j \in 1..(1 + Len(DefaultSubtasks)) |-> EmptyMeta]
    /\ returned' = NoRet
    /\ UNCHANGED <<context_manager, caller, clock, managers, tool_registry, llm_service, stack, log,
                   planner_llm, planning, fetched, built>>

\* execute_current_task(): the current task is handed to the engine, which
\* works on the MemoryManager instance "first"
ExecuteCurrentTask(a) ==
    /\ Idle
    /\ Constructed(a)
    /\ agents[a].memory_manager = "first"
    /\ agents[a].current_task # 0
    /\ Len(managers["first"].task_history) + NumLeaves(agents[a].current_task)
           <= MaxAgentHistory
    /\ Enter(agents[a].current_task, <<>>)
    /\ returned' = NoRet
    /\ answer' = [agent |-> a, op |-> "execute_current_task",
                  task |-> agents[a].current_task, found |-> FALSE,
                  previous |-> agents[a].current_task]
    /\ UNCHANGED <<context_manager, caller, metas, clock, managers, tool_registry, llm_service,
                   planner_llm, planning, fetched, built, agents>>

\* save_state(): the current task's dict under the long-term key
SaveState(a) ==
    /\ Idle
    /\ Constructed(a)
    /\ agents[a].current_task # 0
    /\ managers' = [managers EXCEPT ![agents[a].memory_manager] =
                        Remembered(@, CurrentTaskKey, ToDict(agents[a].current_task), TRUE)]
    /\ answer' = [agent |-> a, op |-> "save_state", task |-> agents[a].current_task,
                  found |-> FALSE, previous |-> agents[a].current_task]
    /\ returned' = NoRet
    /\ UNCHANGED <<context_manager, caller, tasks, metas, clock, tool_registry, llm_service, stack, log,
                   planner_llm, planning, fetched, built, agents>>

\* The number of Task objects from_dict builds from a dict
RECURSIVE DictSize(_)
DictSize(data) ==
    LET RECURSIVE Sum(_)
        Sum(j) == IF j = 0 THEN 0 ELSE DictSize(data.subtasks[j]) + Sum(j - 1)
    IN 1 + Sum(Len(data.subtasks))

\* load_state(): recall of the key; when it is there, the task from_dict
\* builds from it becomes the current task
LoadState(a) ==
    LET m == agents[a].memory_manager
        present == \/ CurrentTaskKey \in DOMAIN managers[m].short_term_memory
                   \/ CurrentTaskKey \in DOMAIN managers[m].long_term_memory
        recall == Recalled(managers[m], CurrentTaskKey, None)
        loaded == FromDictIn(tasks, recall.value)
    IN /\ Idle
       /\ Constructed(a)
       /\ IF present
          THEN /\ Len(tasks) + DictSize(recall.value) <= MaxAgentTasks
               /\ tasks' = loaded.ts
               /\ agents' = [agents EXCEPT ![a].current_task = loaded.task]
               /\ managers' = [managers EXCEPT ![m] = recall.mm]
               /\ answer' = [agent |-> a, op |-> "load_state", task |-> loaded.task,
                             found |-> TRUE, previous |-> agents[a].current_task]
          ELSE /\ answer' = [agent |-> a, op |-> "load_state", task |-> 0,
                             found |-> FALSE, previous |-> agents[a].current_task]
               /\ UNCHANGED <<tasks, agents, managers>>
       /\ returned' = NoRet
       /\ UNCHANGED <<context_manager, caller, metas, clock, tool_registry, llm_service, stack, log,
                      planner_llm, planning, fetched, built>>

\* The current task of agent a is planned by the rule table or a text service
PlanCurrentTask(a, complexity_level) ==
    /\ agents[a].current_task # 0
    /\ Len(tasks) + PlanRoom(agents[a].current_task, complexity_level) <= MaxAgentTasks
    /\ PlanTask(agents[a].current_task, complexity_level)

NextAgent ==
    \/ \E a \in Agents, m \in Instances : AgentManagerInit(a, m)
    \/ \E a \in Agents, text \in Texts : ProcessInstruction(a, text)
    \/ \E a \in Agents : SaveState(a)
    \/ \E a \in Agents : LoadState(a)
    \/ \E a \in Agents, complexity_level \in Levels : PlanCurrentTask(a, complexity_level)
    \/ DecomposeBasic

\* Two AgentManagers that take instructions, plan, save and load
SpecAgent == Init /\ [][NextAgent]_vars

\* The AgentManager whose engine works on the MemoryManager instance "first"
Agent == "one"

NextLife ==
    \/ AgentManagerInit(Agent, "first")
    \/ \E text \in Texts : tasks = <<>> /\ ProcessInstruction(Agent, text)
    \/ SaveState(Agent)
    \/ LoadState(Agent)
    \/ \E complexity_level \in Levels : PlanCurrentTask(Agent, complexity_level)
    \/ DecomposeBasic
    \/ ExecuteCurrentTask(Agent)
    \/ CallChild
    \/ FinishParent
    \/ \E out \in BasicOutcomes : LeafBasic(out)
    \/ PlanRaises
    \/ PlanMalformed
    \/ \E steps \in StepLists : PlanSteps(steps)
    \/ \E name \in Registrable : Idle /\ RegisterTool(name)
    \/ \E result \in ToolResults : StepInvoke(result)
    \/ StepRaises
    \/ StepSkip
    \/ EvalRaises
    \/ \E reply \in Replies : Evaluate(reply)

\* One AgentManager from its instruction through planning, execution, saving
\* and loading
SpecLife == Init /\ [][NextLife]_vars

\* ---------------------------------------------------------- ContextManager
\* services/llm_service.py
MaxMessages == 5   \* add_message calls made on the ContextManager

\* max_context_length arguments of the constructor
ContextLengths == {1, 2, 3}
Roles == {"system", "user", "assistant"}

\* The entry add_message appends.  The callers number their messages, so the
\* content of the n-th message added is n.
Message(role, content) == [role |-> role, content |-> content, timestamp |-> clock]

SystemMessages(history) == SelectSeq(history, LAMBDA msg : msg.role = "system")
OtherMessages(history) == SelectSeq(history, LAMBDA msg : msg.role # "system")

\* ContextManager.add_message
AddedMessage(cm, role) ==
    LET history == Append(cm.conversation_history, Message(role, cm.added + 1))
        system_messages == SystemMessages(history)
        other_messages == OtherMessages(history)
    IN [cm EXCEPT
           !.added = @ + 1,
           !.conversation_history =
               IF Len(history) > cm.max_context_length
               THEN system_messages \o
                    SliceFrom(other_messages,
                              0 - (cm.max_context_length - Len(system_messages)))
               ELSE history]

\* ContextManager.clear_conversation
ClearedConversation(cm, keep_system) ==
    [cm EXCEPT !.conversation_history =
                   IF keep_system THEN SystemMessages(@) ELSE <<>>]

\* ContextManager.__init__
ContextManagerInit(max_context_length) ==
    /\ ~context_manager.constructed
    /\ context_manager' = [constructed |-> TRUE, conversation_history |-> <<>>,
                           max_context_length |-> max_context_length, added |-> 0]
    /\ UNCHANGED <<caller, tasks, metas, clock, managers, tool_registry, llm_service,
                   stack, log, returned, planner_llm, planning, fetched, built, agents,
                   answer>>

\* A caller's context_manager.add_message(role, content)
AddMessage(role) ==
    /\ context_manager.constructed
    /\ context_manager.added < MaxMessages
    /\ context_manager' = AddedMessage(context_manager, role)
    /\ UNCHANGED <<caller, tasks, metas, clock, managers, tool_registry, llm_service,
                   stack, log, returned, planner_llm, planning, fetched, built, agents,
                   answer>>

\* The ContextManager after LLMService.chat(message, system_prompt):
\* `prompted` says whether a system prompt was given, `answered` whether
\* connector.chat_completion returned (it may raise instead)
Chatted(cm, prompted, answered) ==
    LET reset == IF prompted
                 THEN AddedMessage(ClearedConversation(cm, TRUE), "system")
                 ELSE cm
        asked == AddedMessage(reset, "user")
    IN IF answered THEN AddedMessage(asked, "assistant") ELSE asked

\* LLMService.chat
Chat(prompted, answered) ==
    /\ context_manager.constructed
    /\ Chatted(context_manager, prompted, answered).added <= MaxMessages
    /\ context_manager' = Chatted(context_manager, prompted, answered)
    /\ UNCHANGED <<caller, tasks, metas, clock, managers, tool_registry, llm_service,
                   stack, log, returned, planner_llm, planning, fetched, built, agents,
                   answer>>

NextContext ==
    \/ \E max_context_length \in ContextLengths : ContextManagerInit(max_context_length)
    \/ \E role \in Roles : AddMessage(role)
    \/ \E prompted \in BOOLEAN, answered \in BOOLEAN : Chat(prompted, answered)

\* The callers of one ContextManager, directly and through chat
SpecContext == Init /\ [][NextContext]_vars

\* ------------------------------------------ planning and running over time
MaxTimeTasks == 4  \* Task objects on the heap when plan_task is done

NextTime ==
    \/ Tick
    \/ \E name \in Names, description \in Descriptions :
          Idle /\ tasks = <<>> /\ CreateTask(name, description)
    \/ \E p \in Roots, name \in Names, description \in Descriptions :
          Idle /\ AddSubtask(p, name, description)
    \/ \E t \in 1..Len(tasks), status \in TaskStatus : Idle /\ UpdateStatusCall(t, status)
    \/ \E t \in Roots, complexity_level \in Levels :
          /\ Len(tasks) + PlanRoom(t, complexity_level) <= MaxTimeTasks
          /\ PlanTask(t, complexity_level)
    \/ DecomposeBasic
    \/ \E t \in Roots : Idle /\ ~llm_service /\ ExecuteTask(t)
    \/ CallChild
    \/ FinishParent
    \/ \E out \in BasicOutcomes : LeafBasic(out)

\* One tree that its callers build, update, plan by the rule table and run
\* on an engine without text service, while time passes
SpecTime == Init /\ [][NextTime]_vars

\* ----------------------------------- the engine beside long-term memory
\* Keys under which the callers keep long-term values: one of their own and
\* one that the engine uses for a step result
KeptKeys == {"k", StepKey(0)}

NextKeep ==
    \/ \E name \in Registrable : stack = <<>> /\ RegisterTool(name)
    \/ \E name \in Names, description \in Descriptions :
          tasks = <<>> /\ CreateTask(name, description)
    \/ \E p \in Roots, name \in Names, description \in Descriptions :
          History = <<>> /\ AddSubtask(p, name, description)
    \/ \E key \in KeptKeys : stack = <<>> /\ Remember("first", key, "v", TRUE)
    \/ \E t \in Roots : ExecuteTask(t)
    \/ CallChild
    \/ FinishParent
    \/ \E out \in BasicOutcomes : LeafBasic(out)
    \/ PlanRaises
    \/ PlanMalformed
    \/ \E steps \in StepLists : PlanSteps(steps)
    \/ \E result \in ToolResults : StepInvoke(result)
    \/ StepRaises
    \/ StepSkip
    \/ EvalRaises
    \/ \E reply \in Replies : Evaluate(reply)

\* The engine run on one tree, by callers that register tools and keep
\* values in the long-term memory of the engine's MemoryManager
SpecKeep == Init /\ [][NextKeep]_vars

\* ------------------------------------------------------------------ claims
RaisedErrors == {ToolError, ServiceError}
ParentReturned == returned.kind # "none" /\ tasks[returned.task].subtasks # <<>>
LeafReturned == returned.kind # "none" /\ tasks[returned.task].subtasks = <<>>
ChildrenOf(p) == {tasks[p].subtasks[j] : j \in 1..Len(tasks[p].subtasks)}

\* C1: when execute_task returns for a task with children, the task is
\* COMPLETED iff every child is COMPLETED and FAILED otherwise, and the value
\* returned is true exactly when it is COMPLETED.
C1_AndAggregation ==
    ParentReturned =>
        LET t == tasks[returned.task]
            all_completed == \A c \in ChildrenOf(returned.task) : tasks[c].status = COMPLETED
        IN /\ returned.kind = "return"
           /\ t.status = IF all_completed THEN COMPLETED ELSE FAILED
           /\ returned.value = (t.status = COMPLETED)

C1_Witness ==
    /\ ParentReturned
    /\ Len(tasks[returned.task].subtasks) = 2
    /\ tasks[tasks[returned.task].subtasks[1]].status = FAILED
    /\ tasks[tasks[returned.task].subtasks[2]].status = COMPLETED
    /\ tasks[returned.task].status = FAILED
    /\ ~returned.value

\* The calls of execute_task logged on the children of p, in the order made
ChildStarts(p) == SelectSeq(log, LAMBDA x : x \in ChildrenOf(p))

\* C2: when execute_task returns for a task with children, execute_task was
\* called on every child, once each and in insertion order, whatever the
\* earlier children returned.
C2_NonShortCircuit ==
    ParentReturned => ChildStarts(returned.task) = tasks[returned.task].subtasks

C2_Witness ==
    /\ ParentReturned
    /\ Len(tasks[returned.task].subtasks) = 2
    /\ tasks[tasks[returned.task].subtasks[1]].status = FAILED
    /\ ChildStarts(returned.task) = tasks[returned.task].subtasks

\* C3: no call of execute_task ends by raising; a leaf during whose execution
\* a tool or the text service raised returns false and is FAILED, and its
\* caller's loop has recorded the failure.
C3_NeverPropagates ==
    /\ returned.kind # "raise"
    /\ returned.error \in RaisedErrors =>
        /\ returned.kind = "return"
        /\ ~returned.value
        /\ tasks[returned.task].status = FAILED
        /\ stack # <<>> => ~Top.all_success

C3_Witness ==
    /\ returned.error = ToolError
    /\ LeafReturned
    /\ stack # <<>>
    /\ tasks[returned.task].status = FAILED

\* C4 (as claimed): a leaf during whose execution a tool or the text service
\* raised is FAILED and carries the error text in metadata["error"].
C4_ErrorInMetadata ==
    returned.error \in RaisedErrors =>
        /\ tasks[returned.task].status = FAILED
        /\ metas[tasks[returned.task].metadata].error = returned.error

\* C5: the history only grows at its end; a step adds an entry exactly when
\* it ends the execution of a leaf, and the entry is the snapshot of that
\* leaf, COMPLETED or FAILED, as it is when the call returns.
C5_HistoryPerLeaf ==
    [][/\ Len(History') >= Len(History)
       /\ SubSeq(History', 1, Len(History)) = History
       /\ IF returned'.kind # "none" /\ tasks'[returned'.task].subtasks = <<>>
          THEN /\ History' = Append(History, ToDictIn(tasks', returned'.task))
               /\ History'[Len(History')].status \in {Value(COMPLETED), Value(FAILED)}
          ELSE History' = History]_vars

C5_Witness ==
    /\ LeafReturned
    /\ returned.error = ServiceError
    /\ Len(History) = 2
    /\ History[1].id # History[2].id
    /\ History[1].status = Value(COMPLETED)
    /\ History[2] = ToDict(returned.task)
    /\ History[2].status = Value(FAILED)

\* A history entry as a reader sees it: the metadata dict it refers to, read
RECURSIVE EntryView(_, _)
EntryView(e, ms) ==
    [e EXCEPT !.metadata = ms[e.metadata],
              !.subtasks = [j \in 1..Len(e.subtasks) |-> EntryView(e.subtasks[j], ms)]]

\* C6 (as claimed): once an entry is in the history, no later step changes
\* any field of it as read through the history, its metadata included.
C6_EntryImmutable ==
    [][\A i \in 1..Len(History) :
          /\ i <= Len(History')
          /\ EntryView(History'[i], metas') = EntryView(History[i], metas)]_vars

\* C7: recall returns the short-term value of a key short-term memory holds
\* and changes nothing; else the long-term value of a key long-term memory
\* holds, and then short-term memory holds the key with that value and
\* nothing else changed; else it returns the default and changes nothing.
C7_Recall ==
    [][\A m \in Instances, key \in Keys, default \in Defaults :
          (recalled'.m = m /\ recalled'.key = key /\ Recall(m, key, default)) =>
              LET short == managers[m].short_term_memory
                  long == managers[m].long_term_memory
              IN /\ recalled'.m = m /\ recalled'.key = key
                 /\ managers'[m].long_term_memory = long
                 /\ managers'[m].task_history = managers[m].task_history
                 /\ \A o \in Instances \ {m} : managers'[o] = managers[o]
                 /\ IF key \in DOMAIN short
                    THEN /\ recalled'.value = short[key]
                         /\ managers'[m].short_term_memory = short
                    ELSE IF key \in DOMAIN long
                         THEN /\ recalled'.value = long[key]
                              /\ DOMAIN managers'[m].short_term_memory =
                                     DOMAIN short \cup {key}
                              /\ managers'[m].short_term_memory[key] = long[key]
                              /\ \A x \in DOMAIN short :
                                     managers'[m].short_term_memory[x] = short[x]
                         ELSE /\ recalled'.value = default
                              /\ managers'[m].short_term_memory = short]_vars

C7_Witness ==
    /\ recalled.m = "first"
    /\ recalled.key = "k"
    /\ recalled.default = "d"
    /\ recalled.value = "v"
    /\ managers["first"].long_term_memory = ("k" :> "v")
    /\ managers["first"].short_term_memory = ("k" :> "v") @@ ("j" :> "w")

\* Long-term memory holds v under key, and short-term memory nothing else
\* under it: the state remember(key, v, long_term=True) leaves
LongTermCopy(mm, key, v) ==
    /\ key \in DOMAIN mm.long_term_memory
    /\ mm.long_term_memory[key] = v
    /\ key \in DOMAIN mm.short_term_memory => mm.short_term_memory[key] = v

ShortTermClearing(m) ==
    ClearShortTermMemory(m) \/ \E other \in Keys : Forget(m, other, FALSE)

\* C8: clear_short_term_memory and forget without the long-term flag leave
\* long-term memory as it is; remember(key, v, long_term=True) leaves the
\* long-term copy, the two operations keep it, and recall(key) then returns v.
C8_LongTermKept ==
    [][\A m \in Instances :
          IF recalled'.m = m
          THEN \A key \in Keys :
                  (\E default \in Defaults : Recall(m, key, default)) =>
                      \A v \in Values :
                          LongTermCopy(managers[m], key, v) => recalled'.value = v
          ELSE managers'[m] # managers[m] =>
                   /\ ShortTermClearing(m) =>
                          /\ managers'[m].long_term_memory = managers[m].long_term_memory
                          /\ \A key \in Keys, v \in Values :
                                 LongTermCopy(managers[m], key, v) =>
                                     LongTermCopy(managers'[m], key, v)
                   /\ \A key \in Keys, v \in Values :
                          Remember(m, key, v, TRUE) =>
                              LongTermCopy(managers'[m], key, v)]_vars

C8_Witness ==
    /\ recalled.m = "first"
    /\ recalled.key = "k"
    /\ recalled.default = None
    /\ recalled.value = "v"
    /\ managers["first"].long_term_memory = ("k" :> "v") @@ ("j" :> "w")
    /\ managers["first"].short_term_memory = ("k" :> "v")

\* C9 (as claimed): recall(key) on the second instance, which holds nothing
\* of its own under key, returns what the first instance remembered under
\* key in long-term memory.
C9_SecondInstanceRecalls ==
    [][\A key \in Keys, default \in Defaults :
          (/\ Recall("second", key, default)
           /\ key \in DOMAIN managers["first"].long_term_memory
           /\ key \notin DOMAIN managers["second"].short_term_memory
           /\ key \notin DOMAIN managers["second"].long_term_memory) =>
              recalled'.value = managers["first"].long_term_memory[key]]_vars

\* A memory dict as a reader sees it: list values read through their reference
DictView(d, os) ==
    [key \in DOMAIN d |->
        IF d[key] \in ObjRefs THEN [list |-> os[d[key]]] ELSE [scalar |-> d[key]]]

ManagerState(mm, os) ==
    [short_term_memory |-> DictView(mm.short_term_memory, os),
     long_term_memory |-> DictView(mm.long_term_memory, os),
     task_history |-> mm.task_history]

\* C10 (as claimed): no mutation a caller makes on the returned snapshot
\* changes the manager's short-term memory, long-term memory or history.
C10_SnapshotIsolated ==
    [][SnapshotMutation =>
          \A m \in Instances :
              ManagerState(managers'[m], objs') = ManagerState(managers[m], objs)]_vars

\* The last k elements of seq, in their order
LastEntries(seq, k) == SubSeq(seq, Len(seq) - k + 1, Len(seq))

\* C11 (as claimed): get_task_history returns the whole history when no limit
\* is given, and for every limit >= 0 the last min(limit, n) entries of a
\* history of n entries, in their order.
C11_LastEntries ==
    [][\A given \in BOOLEAN, limit \in Limits :
          GetTaskHistory(given, limit) =>
              fetched'.entries =
                  IF ~given THEN History
                  ELSE LastEntries(History, IF limit < Len(History) THEN limit
                                            ELSE Len(History))]_vars

\* Task objects a and b of the heap ts agree on every field, their metadata
\* as read through ms, and have pairwise agreeing children in the same order
RECURSIVE SameTree(_, _, _, _)
SameTree(ts, ms, a, b) ==
    /\ ts[a].id = ts[b].id
    /\ ts[a].name = ts[b].name
    /\ ts[a].description = ts[b].description
    /\ ts[a].status = ts[b].status
    /\ ts[a].created_at = ts[b].created_at
    /\ ts[a].updated_at = ts[b].updated_at
    /\ ts[a].completed_at = ts[b].completed_at
    /\ ts[a].parent_id = ts[b].parent_id
    /\ ms[ts[a].metadata] = ms[ts[b].metadata]
    /\ Len(ts[a].subtasks) = Len(ts[b].subtasks)
    /\ \A j \in 1..Len(ts[a].subtasks) :
           SameTree(ts, ms, ts[a].subtasks[j], ts[b].subtasks[j])

\* C12: the task Task.from_dict(t.to_dict()) returns has the id, name,
\* description, status, timestamps, parent_id and metadata of t, and
\* recursively the same children in the same order.
C12_RoundTrip ==
    [][built' # built =>
          /\ built'.task \notin 1..Len(tasks)
          /\ SameTree(tasks', metas', built'.source, built'.task)
          /\ \A t \in 1..Len(tasks) : tasks'[t] = tasks[t]]_vars

C12_Witness ==
    /\ built # NoBuilt
    /\ Len(tasks[built.source].subtasks) = 2
    /\ tasks[built.source].status = COMPLETED
    /\ tasks[built.source].completed_at = 1
    /\ tasks[built.source].created_at = 0
    /\ metas[tasks[built.source].metadata].note = "n1"
    /\ built.task # built.source
    /\ tasks[built.task].subtasks # tasks[built.source].subtasks
    /\ SameTree(tasks, metas, built.source, built.task)

\* C13: update_status(s) sets the status to s and updated_at to the time of
\* the call; it sets completed_at when s is COMPLETED, and for every other s
\* it leaves completed_at as it was; the id, the parent id, the metadata, the
\* child list and the children are as before, and so is every other task.
C13_UpdateStatus ==
    [][\A t \in 1..Len(tasks), s \in TaskStatus :
          (tasks' # tasks /\ UpdateStatusCall(t, s)) =>
              /\ tasks'[t].status = s
              /\ tasks'[t].updated_at = clock
              /\ tasks'[t].completed_at =
                     IF s = COMPLETED THEN clock ELSE tasks[t].completed_at
              /\ tasks'[t].id = tasks[t].id
              /\ tasks'[t].parent_id = tasks[t].parent_id
              /\ tasks'[t].subtasks = tasks[t].subtasks
              /\ tasks'[t].metadata = tasks[t].metadata
              /\ tasks'[t].created_at = tasks[t].created_at
              /\ metas' = metas
              /\ Len(tasks') = Len(tasks)
              /\ \A o \in (1..Len(tasks)) \ {t} : tasks'[o] = tasks[o]]_vars

C13_Witness ==
    \E t \in 1..Len(tasks) :
        /\ tasks[t].status = FAILED
        /\ tasks[t].completed_at = 0
        /\ tasks[t].updated_at = 1
        /\ tasks[t].parent_id # NoParent
        /\ tasks[t].subtasks # <<>>
        /\ metas[tasks[tasks[t].parent_id].metadata].note = "n1"

\* The step ends the running plan_task call
PlanTaskEnds == planning.pc = "decompose" /\ planning'.pc = "idle"

\* C14 (as claimed): plan_task sets the task PLANNING before it adds any
\* subtask, and on every path (rule table, reply of the text service that is
\* a list, failed call, malformed reply) it returns the task it was given
\* with status IN_PROGRESS; every subtask it added is PENDING.
C14_PlanTask ==
    [][/\ (planning.pc = "idle" /\ planning'.pc = "decompose") =>
             /\ tasks'[planning'.task].status = PLANNING
             /\ Len(tasks') = Len(tasks)
       /\ PlanTaskEnds =>
             /\ tasks[planning.task].status = PLANNING
             /\ planning'.kind = "return"
             /\ planning'.value = planning.task
             /\ tasks'[planning.task].status = IN_PROGRESS
             /\ \A c \in (Len(tasks) + 1)..Len(tasks') : tasks'[c].status = PENDING]_vars

\* C15: when the planner has a text service and the call raises or the reply
\* is no list, plan_task returns without raising, constructs no task, and
\* the task's children are the same objects in the same order, unchanged.
C15_PlannerFailure ==
    [][\A reply \in {r \in PlannerReplies : r.kind # "list"} :
          DecomposeLLM(reply) =>
              /\ planning'.kind = "return"
              /\ Len(tasks') = Len(tasks)
              /\ tasks'[planning.task].subtasks = tasks[planning.task].subtasks
              /\ \A c \in (1..Len(tasks)) \ {planning.task} : tasks'[c] = tasks[c]]_vars

C15_Witness ==
    /\ planner_llm
    /\ planning.kind = "return"
    /\ planning.reply = "raise"
    /\ tasks[planning.task].name = <<"development">>
    /\ tasks[planning.task].status = IN_PROGRESS
    /\ Len(tasks[planning.task].subtasks) = 2
    /\ Len(tasks) = 3

\* The names of the children of t, in order
ChildNames(ts, t) == [j \in 1..Len(ts[t].subtasks) |-> ts[ts[t].subtasks[j]].name]

\* The rule table as the claim words it
RuleTable(name) ==
    IF In("development", name) \/ In("implementation", name)
    THEN << <<"requirements analysis">>, <<"design">>, <<"implementation">>,
            <<"test">>, <<"documentation">> >>
    ELSE IF In("test", name)
         THEN << <<"test", "plan">>, <<"test", "case authoring">>,
                 <<"test", "execute">>, <<"bug fixing">> >>
         ELSE IF In("design", name)
              THEN << <<"requirements confirmation">>, <<"architecture", "design">>,
                      <<"detailed", "design">>, <<"review">> >>
              ELSE << <<"plan">>, <<"execute">>, <<"verify">> >>

HasUnregisteredStep ==
    \E j \in 1..Len(Top.steps) : Top.steps[j] \notin tool_registry

\* C17: a step whose tool is not registered is passed over: the step invokes
\* no tool, stores nothing and changes no task, the leaf goes on with the
\* next step or with the evaluation, and an affirmative evaluation reply
\* then ends the leaf COMPLETED with true returned.
C17_UnregisteredSkipped ==
    [][/\ StepSkip =>
             /\ managers' = managers
             /\ tasks' = tasks
             /\ metas' = metas
             /\ Len(stack') = Len(stack)
             /\ Top'.pc = "llm_steps"
             /\ Top'.steps = Top.steps
             /\ Top'.si = Top.si + 1
       /\ \A reply \in Replies :
             (AtEval /\ HasUnregisteredStep /\ ContainsYes(reply) /\ Evaluate(reply)) =>
                 /\ tasks'[Top.task].status = COMPLETED
                 /\ returned'.kind = "return"
                 /\ returned'.value]_vars

C17_Witness ==
    /\ LeafReturned
    /\ returned.value
    /\ tasks[returned.task].status = COMPLETED
    /\ "search" \in tool_registry
    /\ DOMAIN managers["first"].short_term_memory = {StepKey(1)}

\* C18: no task ever has the status CANCELLED, whatever the agent plans,
\* executes, saves and loads after its instruction.
C18_NeverCancelled == \A t \in 1..Len(tasks) : tasks[t].status # CANCELLED

C18_Witness ==
    /\ answer.op = "load_state"
    /\ answer.found
    /\ tasks[answer.task].status = IN_PROGRESS
    /\ Len(tasks[answer.task].subtasks) = 8
    /\ tasks[tasks[answer.task].subtasks[1]].status = FAILED
    /\ tasks[tasks[answer.task].subtasks[2]].status = COMPLETED
    /\ tasks[tasks[answer.task].subtasks[8]].status = PENDING

\* The names of the five default subtasks as the claim words them
FiveStages == << <<"analyze">>, <<"plan">>, <<"execute">>, <<"verify">>, <<"report">> >>

\* C19: process_instruction(text) constructs a root task of the text with
\* exactly the five subtasks analyze, plan, execute, verify, report, in that
\* order and whatever the text is; the root is returned and is the agent's
\* current task in place of the one it had; nothing else changes.
C19_ProcessInstruction ==
    [][\A a \in Agents, text \in Texts :
          (Len(tasks') > Len(tasks) /\ ProcessInstruction(a, text)) =>
              LET root == answer'.task
              IN /\ root \notin 1..Len(tasks)
                 /\ tasks'[root].description = text
                 /\ tasks'[root].parent_id = NoParent
                 /\ tasks'[root].status = PENDING
                 /\ ChildNames(tasks', root) = FiveStages
                 /\ \A j \in 1..Len(tasks'[root].subtasks) :
                        LET c == tasks'[root].subtasks[j]
                        IN /\ c \notin 1..Len(tasks)
                           /\ tasks'[c].parent_id = tasks'[root].id
                           /\ tasks'[c].subtasks = <<>>
                           /\ tasks'[c].status = PENDING
                 /\ agents'[a].current_task = root
                 /\ \A o \in Agents \ {a} : agents'[o] = agents[o]
                 /\ \A t \in 1..Len(tasks) : tasks'[t] = tasks[t]]_vars

C19_Witness ==
    /\ answer.op = "process_instruction"
    /\ answer.previous # 0
    /\ tasks[answer.previous].description = <<"job">>
    /\ tasks[answer.task].description = <<"development">>
    /\ agents[answer.agent].current_task = answer.task
    /\ ChildNames(tasks, answer.task) = FiveStages

\* Task t of the heap ts has the id, name, description and status the dict
\* records, and its children match the dict's subtasks pairwise, in order
RECURSIVE Matches(_, _, _)
Matches(ts, t, data) ==
    /\ ts[t].id = data.id
    /\ ts[t].name = data.name
    /\ ts[t].description = data.description
    /\ Value(ts[t].status) = data.status
    /\ Len(ts[t].subtasks) = Len(data.subtasks)
    /\ \A j \in 1..Len(data.subtasks) : Matches(ts, ts[t].subtasks[j], data.subtasks[j])

\* The long-term store the agent uses holds a saved task
Saved(a) == CurrentTaskKey \in DOMAIN managers[agents[a].memory_manager].long_term_memory
SavedTask(ms, a) == ms[agents[a].memory_manager].long_term_memory[CurrentTaskKey]

IsSuffix(s, t) == Len(s) <= Len(t) /\ s = SubSeq(t, Len(t) - Len(s) + 1, Len(t))
\* s is the start of t
IsPrefix(s, t) == Len(s) <= Len(t) /\ s = SubSeq(t, 1, Len(s))

\* C21 (as claimed): after every add_message call, made by a caller or by
\* chat, the conversation history holds at most max_context_length messages
\* and every system message it held or was given; after an add_message call
\* the non-system messages kept are the most recent ones, in their order.
C21_BoundedConversation ==
    [][(context_manager.constructed /\ context_manager' # context_manager) =>
          LET history == context_manager.conversation_history
              kept == context_manager'.conversation_history
          IN /\ Len(kept) <= context_manager.max_context_length
             /\ IsPrefix(SystemMessages(history), SystemMessages(kept))
             /\ \A role \in Roles :
                   AddMessage(role) =>
                       LET all == Append(history, Message(role, context_manager.added + 1))
                       IN /\ SystemMessages(kept) = SystemMessages(all)
                          /\ IsSuffix(OtherMessages(kept), OtherMessages(all))]_vars

\* The frames of the calls that are in the loop over their task's children
ParentFrames(st) == {k \in 1..Len(st) : st[k].pc = "children"}
Final == {COMPLETED, FAILED}

RECURSIVE Subtree(_)
Subtree(t) == {t} \cup UNION {Subtree(c) : c \in ChildrenOf(t)}

\* C23: every call of execute_task comes to its end, whatever the tools and
\* the text service return or raise, and when a call returns, every task of
\* the tree it ran on, root, inner nodes and leaves, is COMPLETED or FAILED.
C23_TerminatesFinal ==
    /\ [](returned.kind # "none" =>
             /\ returned.kind = "return"
             /\ \A n \in Subtree(returned.task) : tasks[n].status \in Final)
    /\ (stack # <<>>) ~> (stack = <<>>)

C23_Witness ==
    /\ stack = <<>>
    /\ returned.kind = "return"
    /\ tasks[returned.task].parent_id = NoParent
    /\ Cardinality(Subtree(returned.task)) = 3
    /\ Len(tasks[returned.task].subtasks) = 1
    /\ tasks[returned.task].status = FAILED
    /\ \A n \in Subtree(returned.task) : tasks[n].status = FAILED

\* The step ends the leaf procedure of the running call
EndsSteps ==
    /\ stack # <<>>
    /\ Top.pc = "llm_steps"
    /\ returned'.kind # "none"
    /\ returned'.task = Top.task

\* The tool calls recorded in frame f were made in the order of its step
\* list, one for every step passed whose tool is registered
CallsInOrder(f) ==
    /\ \A n \in 1..Len(f.calls) :
          /\ f.calls[n].step < f.si
          /\ f.calls[n].tool = f.steps[f.calls[n].step + 1]
          /\ n > 1 => f.calls[n - 1].step < f.calls[n].step
    /\ {f.calls[n].step : n \in 1..Len(f.calls)} =
           {i \in 0..(f.si - 1) : f.steps[i + 1] \in tool_registry}

\* C24: the tools of a leaf's steps are invoked in the order of the step
\* list; the result of the step at 0-based position i of the whole list,
\* skipped steps counted, is stored in short-term memory under
\* "step_<i>_result"; the evaluation question is asked only when every step
\* was processed; and when the leaf returns, recall of the key of each step
\* whose tool was invoked gives that step's result.
C24_StepsInOrder ==
    [][/\ (stack' # <<>> /\ Top'.pc = "llm_steps") => CallsInOrder(Top')
       /\ \A result \in StepResults :
             StepInvoke(result) =>
                 /\ Top'.calls = Append(Top.calls, [step |-> Top.si,
                                                    tool |-> Top.steps[Top.si + 1],
                                                    result |-> result])
                 /\ managers'["first"].short_term_memory =
                        Put(managers["first"].short_term_memory,
                            "step_" \o ToString(Top.si) \o "_result", result)
       /\ (EvalRaises \/ \E reply \in Replies : Evaluate(reply)) =>
             Top.si = Len(Top.steps)
       /\ EndsSteps =>
             \A n \in 1..Len(Top.calls) :
                 Recalled(managers'["first"],
                          "step_" \o ToString(Top.calls[n].step) \o "_result",
                          None).value = Top.calls[n].result]_vars

C24_Witness ==
    /\ LeafReturned
    /\ returned.value
    /\ Len(History) = 1
    /\ managers["first"].short_term_memory =
           ("step_0_result" :> "r2") @@ ("step_1_result" :> "r1")

\* C28: when a registered tool raises at a step of a leaf, that step is the
\* last of the leaf's call (no later tool is invoked, no evaluation asked);
\* the call returns false with the leaf FAILED, short-term memory is as the
\* earlier steps left it, with their results, the history gains exactly the
\* entry of the leaf, and the caller's loop goes on to the next sibling, so
\* that a parent returns only after a call on each of its children.
C28_ToolRaises ==
    [][/\ StepRaises =>
             /\ Len(stack') = Len(stack) - 1
             /\ returned' = [task |-> Top.task, kind |-> "return", value |-> FALSE,
                             error |-> ToolError]
             /\ \A n \in 1..Len(Top.calls) :
                    /\ Top.calls[n].step < Top.si
                    /\ managers'["first"].short_term_memory[
                           "step_" \o ToString(Top.calls[n].step) \o "_result"] =
                               Top.calls[n].result
             /\ managers'["first"].short_term_memory = managers["first"].short_term_memory
             /\ tasks'[Top.task].status = FAILED
             /\ History' = Append(History, ToDictIn(tasks', Top.task))
             /\ Len(stack) > 1 =>
                    stack'[Len(stack')] = [stack[Len(stack) - 1] EXCEPT
                                              !.i = @ + 1, !.all_success = FALSE]
       /\ (returned'.kind # "none" /\ tasks'[returned'.task].subtasks # <<>>) =>
             SelectSeq(log', LAMBDA x : tasks'[x].parent_id = tasks'[returned'.task].id) =
                 tasks'[returned'.task].subtasks]_vars

C28_Witness ==
    /\ LeafReturned
    /\ returned.error = ToolError
    /\ Len(stack) = 1
    /\ Top.i = 2
    /\ Len(tasks[Top.task].subtasks) = 2
    /\ ~Top.all_success
    /\ managers["first"].short_term_memory = ("step_0_result" :> "r2")
    /\ Len(History) = 1
    /\ History[1].status = Value(FAILED)

\* C25: no step lowers the updated_at of a task, whether it is update_status,
\* plan_task or execute_task that writes it, and every task has
\* created_at <= updated_at from its construction on.
C25_UpdatedAtMonotonic ==
    [][/\ \A t \in 1..Len(tasks) : tasks'[t].updated_at >= tasks[t].updated_at
       /\ \A t \in 1..Len(tasks') : tasks'[t].created_at <= tasks'[t].updated_at]_vars

C25_Witness ==
    /\ planning.kind = "return"
    /\ tasks[planning.task].created_at = 0
    /\ tasks[planning.task].updated_at = 1
    /\ Len(History) = 1
    /\ History[1].id = tasks[planning.task].id
    /\ History[1].updated_at = 0
    /\ \A c \in ChildrenOf(planning.task) : tasks[c].created_at = 1

\* C27 (as claimed): in every state plan_task, execute_task and update_status
\* reach, a task has a completed_at exactly when its status is COMPLETED.
C27_CompletedAtIffCompleted ==
    \A t \in 1..Len(tasks) :
        (tasks[t].completed_at # NoTime) <=> (tasks[t].status = COMPLETED)

\* In the heap ts every child carries the id of the task that holds it, the
\* children of a task are in the order of their construction, no task is
\* held twice, and no two tasks have the same id
Linked(ts) ==
    /\ \A p \in 1..Len(ts) :
          \A j \in 1..Len(ts[p].subtasks) :
              /\ ts[ts[p].subtasks[j]].parent_id = ts[p].id
              /\ \A k \in 1..(j - 1) : ts[p].subtasks[k] < ts[p].subtasks[j]
              /\ \A q \in 1..Len(ts) : \A k \in 1..Len(ts[q].subtasks) :
                     ts[q].subtasks[k] = ts[p].subtasks[j] => (q = p /\ k = j)
    /\ \A a, b \in 1..Len(ts) : ts[a].id = ts[b].id => a = b

\* C26: add_subtask(name, description) constructs one task, PENDING, without
\* children, with the name and description given and the parent's id as its
\* parent_id, and appends it to the parent's children, leaving the earlier
\* children and every other task as they were; and after any sequence of
\* add_subtask and plan_task calls every child's parent_id is the id of its
\* holder, children are in insertion order and all ids are distinct.
C26_TreeLinkage ==
    [][/\ Linked(tasks')
       /\ \A p \in 1..Len(tasks), name \in Names, description \in Descriptions :
             (Len(tasks') > Len(tasks) /\ AddSubtask(p, name, description)) =>
                 LET c == Len(tasks')
                 IN /\ c = Len(tasks) + 1
                    /\ tasks'[p].subtasks = Append(tasks[p].subtasks, c)
                    /\ tasks'[p] = [tasks[p] EXCEPT !.subtasks = tasks'[p].subtasks]
                    /\ tasks'[c].status = PENDING
                    /\ tasks'[c].parent_id = tasks[p].id
                    /\ tasks'[c].name = name
                    /\ tasks'[c].description = description
                    /\ tasks'[c].subtasks = <<>>
                    /\ \A o \in (1..Len(tasks)) \ {p} : tasks'[o] = tasks[o]]_vars

C26_Witness ==
    /\ planning.kind = "return"
    /\ ~planner_llm
    /\ Len(tasks) = 6
    /\ ChildNames(tasks, planning.task) = << <<"job">>, <<"plan">>, <<"execute">>, <<"verify">> >>
    /\ tasks[planning.task].subtasks = <<2, 4, 5, 6>>
    /\ tasks[2].subtasks = <<3>>
    /\ tasks[3].parent_id = tasks[2].id
    /\ Linked(tasks)

ResultKeys(n) == {"step_" \o ToString(i) \o "_result" : i \in 0..(n - 1)}

\* C29: no step of a running execute_task call changes long-term memory or
\* the tool registry, whatever the tree, the tools and the text service do;
\* in short-term memory it writes step results only, to the history it only
\* appends, and the other MemoryManager is left alone.
C29_LongTermUntouched ==
    [][(stack # <<>> \/ stack' # <<>>) =>
          LET short == managers["first"].short_term_memory
              after == managers'["first"].short_term_memory
          IN /\ managers'["first"].long_term_memory = managers["first"].long_term_memory
             /\ tool_registry' = tool_registry
             /\ managers'["second"] = managers["second"]
             /\ IsPrefix(History, History')
             /\ DOMAIN short \subseteq DOMAIN after
             /\ \A key \in DOMAIN after :
                    (key \notin DOMAIN short \/ after[key] # short[key]) =>
                        key \in ResultKeys(Len(Top.steps))]_vars

C29_Witness ==
    /\ LeafReturned
    /\ returned.value
    /\ "search" \in tool_registry
    /\ managers["first"].long_term_memory = ("step_0_result" :> "v") @@ ("k" :> "v")
    /\ managers["first"].short_term_memory = ("step_0_result" :> "r1") @@ ("k" :> "v")

====
